---- MODULE Spec2Model ----
(***************************************************************************)
(* Model of the ultralytics/action first-interaction pipeline              *)
(* (src/utils/first_interaction.py) and of the label parser it shares with *)
(* src/utils/autolabel_issue.py.                                           *)
(*                                                                         *)
(* Text is modelled as a sequence of one-character strings, so that        *)
(* lower(), strip(), split(",") and the substring test are computed and    *)
(* not assumed.  A label dictionary (a Python dict, insertion ordered) is  *)
(* a sequence of [name, description] records with pairwise distinct names. *)
(* Every remote request is answered with a response; what the code does    *)
(* with the response status and payload is modelled, transport failures    *)
(* (no response at all) are not.                                           *)
(***************************************************************************)
EXTENDS Integers, Sequences, FiniteSets, TLC

VARIABLES
    script,              \* which script's get_relevant_labels runs
    GITHUB_EVENT_NAME,   \* environment: the event name
    event_action,        \* event payload: data["action"]
    BLOCK_USER,          \* environment: the block-user switch
    repo_labels,         \* remote: the repository's labels (dict)
    item,                \* remote: the issue / pull request / discussion
    pc,                  \* position in main()
    issue_type,          \* local of main(): "issue" | "pull request" | "discussion"
    title,               \* local of main(): title captured from the event
    body,                \* local of main(): body captured from the event
    label_descriptions,  \* local of main(): dict passed to get_relevant_labels
    current_labels,      \* local of main(): lowercased labels already on the item
    suggested_labels,    \* local of get_relevant_labels(): the completion text
    relevant_labels,     \* local of main(): the classification result
    completion,          \* raw content of the classification completion
    member_status,       \* status of the membership request, 0 before it is made
    first_prompt,        \* title and body put in the first-response prompt
    trace,               \* the remote requests made so far, in order
    raised,              \* the function an uncaught exception came out of, or "none"
    max_retries,         \* update_pr_description: the parameter
    new_summary,         \* update_pr_description: the parameter
    pr_body,             \* remote: the body of the pull request
    retry_i,             \* update_pr_description: i of the fetch loop
    description,         \* update_pr_description: the body last fetched
    fetched,             \* the bodies the fetches returned, in order
    sleeps,              \* how often the loop slept
    updated_description, \* update_pr_description: the body it sends
    patch_status,        \* status of the PATCH, 0 before it is made
    runs,                \* how many calls of update_pr_description were begun
    last_summary,        \* new_summary of the call before this one
    last_sent,           \* the body the call before this one sent
    all_urls,            \* check_links_in_string: the URLs found in the text
    bad_urls,            \* check_links_in_string: the URLs reported bad
    passing,             \* check_links_in_string: the verdict
    checked_url,         \* is_url: the parameter url
    check,               \* is_url: the parameter check
    attempts_allowed,    \* is_url: the parameter max_attempts
    attempt_i,           \* is_url: attempt of the loop
    head_requests,       \* how many HEAD requests were sent for the URL
    waits,               \* the seconds slept between attempts, in order
    url_result           \* what is_url returned, "none" before it returns

envVars    == <<script, GITHUB_EVENT_NAME, event_action, BLOCK_USER>>
remoteVars == <<repo_labels, item>>
eventVars  == <<issue_type, title, body>>
labelVars  == <<label_descriptions, current_labels, completion, suggested_labels,
               relevant_labels>>
prVars     == <<max_retries, new_summary, pr_body, retry_i, description, fetched,
               sleeps, updated_description, patch_status, runs, last_summary,
               last_sent>>
urlVars    == <<checked_url, check, attempts_allowed, attempt_i, head_requests,
               waits, url_result>>
linkVars   == <<all_urls, bad_urls, passing, urlVars>>
vars == <<envVars, remoteVars, pc, eventVars, labelVars, member_status, first_prompt,
          trace, raised, prVars, linkVars>>

\* is_url is not running
UrlIdle ==
    /\ checked_url = ""
    /\ check = TRUE
    /\ attempts_allowed = 0
    /\ attempt_i = 0
    /\ head_requests = 0
    /\ waits = <<>>
    /\ url_result = "none"

\* check_links_in_string is not running
LinkIdle ==
    /\ all_urls = <<>>
    /\ bad_urls = {}
    /\ passing = TRUE
    /\ UrlIdle

\* update_pr_description is not running
PrIdle ==
    /\ max_retries = 0
    /\ new_summary = <<>>
    /\ pr_body = <<>>
    /\ retry_i = 0
    /\ description = <<>>
    /\ fetched = <<>>
    /\ sleeps = 0
    /\ updated_description = <<>>
    /\ patch_status = 0
    /\ runs = 0
    /\ last_summary = <<>>
    /\ last_sent = <<>>

----------------------------------------------------------------------------
(* Bounds *)

\* largest number of comma-separated entries of a completion text
MaxEntries == 4

----------------------------------------------------------------------------
(* Text *)

Range(s) == {s[i] : i \in DOMAIN s}

UpperChars == <<"A","B","C","D","E","F","G","H","I","J","K","L","M",
                "N","O","P","Q","R","S","T","U","V","W","X","Y","Z">>
LowerChars == <<"a","b","c","d","e","f","g","h","i","j","k","l","m",
                "n","o","p","q","r","s","t","u","v","w","x","y","z">>

Whitespace == {" ", "\t", "\n"}

\* the lowercase of each uppercase letter
LowerOf == [c \in Range(UpperChars) |->
               LowerChars[CHOOSE i \in DOMAIN UpperChars : UpperChars[i] = c]]

LowerChar(c) == IF c \in DOMAIN LowerOf THEN LowerOf[c] ELSE c

\* str.lower()
lower(s) == [i \in 1..Len(s) |-> LowerChar(s[i])]

\* str.lstrip() and str.rstrip()
RECURSIVE lstrip(_)
lstrip(s) == IF s = <<>> \/ Head(s) \notin Whitespace THEN s ELSE lstrip(Tail(s))

RECURSIVE rstrip(_)
rstrip(s) ==
    IF s = <<>> \/ s[Len(s)] \notin Whitespace THEN s
    ELSE rstrip(SubSeq(s, 1, Len(s) - 1))

\* str.strip(): leading and trailing whitespace removed
strip(s) == rstrip(lstrip(s))

\* sub in s
contains(sub, s) ==
    \E i \in 1..(Len(s) - Len(sub) + 1) : SubSeq(s, i, i + Len(sub) - 1) = sub

\* s.split(sep) for a one-character sep: never empty, "" gives [""]
RECURSIVE split(_, _)
split(s, sep) ==
    LET at == {i \in 1..Len(s) : s[i] = sep}
    IN  IF at = {} THEN <<s>>
        ELSE LET k == CHOOSE i \in at : \A j \in at : i <= j
             IN  <<SubSeq(s, 1, k - 1)>> \o split(SubSeq(s, k + 1, Len(s)), sep)

\* sep.join(parts)
RECURSIVE join(_, _)
join(parts, sep) ==
    IF parts = <<>> THEN <<>>
    ELSE IF Len(parts) = 1 THEN parts[1]
    ELSE parts[1] \o <<sep>> \o join(Tail(parts), sep)

\* label names and texts used by the code
sAlert       == <<"A","l","e","r","t">>
s_bug        == <<"b","u","g">>
s_question   == <<"q","u","e","s","t","i","o","n">>
s_helpwanted == <<"h","e","l","p"," ","w","a","n","t","e","d">>
sTODO        == <<"T","O","D","O">>
s_none       == <<"n","o","n","e">>

----------------------------------------------------------------------------
(* Label dictionaries *)

has(d, k) == \E i \in DOMAIN d : d[i].name = k

\* dict.pop(k, None)
pop(d, k) == SelectSeq(d, LAMBDA e : e.name # k)

names(d) == [i \in DOMAIN d |-> d[i].name]

AlertDescription == "Potential spam, abuse, or illegal activity"

\* mutant: only "help wanted" is removed
PopReservedHelpOnly(d) == pop(d, s_helpwanted)

\* "help wanted" and "TODO" are never candidates
PopReserved(d) == pop(pop(d, s_helpwanted), sTODO)

\* 'bug' and 'question' are mutually exclusive
PopExclusive(d, current) ==
    IF s_bug \in Range(current) THEN pop(d, s_question)
    ELSE IF s_question \in Range(current) THEN pop(d, s_bug)
    ELSE d

\* mutant: no "Alert" is added when a label is named so in any case
AddAlertUnlessAnyCase(d) ==
    IF \E i \in DOMAIN d : lower(d[i].name) = lower(sAlert) THEN d
    ELSE Append(d, [name |-> sAlert, description |-> AlertDescription])

\* first_interaction only: "Alert" is a candidate even when the repository has none
AddAlert(d) ==
    IF has(d, sAlert) THEN d
    ELSE Append(d, [name |-> sAlert, description |-> AlertDescription])

\* available_labels as get_relevant_labels leaves it before building the prompt
Candidates(scr, available_labels, current) ==
    LET base == PopExclusive(PopReserved(available_labels), current)
    IN  IF scr = "first_interaction" THEN AddAlert(base) ELSE base

\* get_completion returns the message content stripped
get_completion(content) == strip(content)

\* available_labels_lower = {name.lower(): name for name in available_labels}:
\* a later name replaces an earlier one with the same lowercase form
InLower(available_labels, k) ==
    \E i \in DOMAIN available_labels : lower(available_labels[i].name) = k

LowerLookup(available_labels, k) ==
    LET hits == {i \in DOMAIN available_labels : lower(available_labels[i].name) = k}
    IN  available_labels[CHOOSE i \in hits : \A j \in hits : j <= i].name

\* mutant: the entry is lowercased and not stripped
EntryKeyNoStrip(label) == lower(label)

\* the key looked up for one comma-separated entry: label.lower().strip()
EntryKey(label) == strip(lower(label))

\* mutant: "none" must be the whole answer
SaysNoneExact(suggested) == lower(suggested) = s_none

\* "none" in suggested_labels.lower()
SaysNone(suggested) == contains(s_none, lower(suggested))

\* mutant: an entry without a match is kept as written (dict.get(key, key))
MatchEntriesKeepUnknown(suggested, available_labels) ==
    LET parts == split(suggested, ",")
    IN  [i \in DOMAIN parts |->
            IF InLower(available_labels, EntryKey(parts[i]))
            THEN LowerLookup(available_labels, EntryKey(parts[i]))
            ELSE strip(parts[i])]

\* the list comprehension over suggested_labels.split(",")
MatchEntries(suggested, available_labels) ==
    LET kept == SelectSeq(split(suggested, ","),
                          LAMBDA label : InLower(available_labels, EntryKey(label)))
    IN  [i \in DOMAIN kept |-> LowerLookup(available_labels, EntryKey(kept[i]))]

\* the tail of get_relevant_labels, from the completion text to the result
ParseSuggested(suggested, available_labels) ==
    IF SaysNone(suggested) THEN <<>>
    ELSE MatchEntries(suggested, available_labels)

\* get_relevant_labels: the result for a completion content, a label dict and
\* the labels already on the item
RelevantLabels(scr, content, available_labels, current) ==
    ParseSuggested(get_completion(content), Candidates(scr, available_labels, current))

----------------------------------------------------------------------------
(* Inputs *)

sBug      == <<"B","u","g">>
sQuestion == <<"Q","u","e","s","t","i","o","n">>

\* comma-free pieces a completion text is made of
eBug      == sBug
eAlert    == <<" ">> \o sAlert
eNonsense == <<" ","n","o","n","s","e","n","s","e","-","l","a","b","e","l">>
eNone     == <<"N","o","n","e">>
eNoneIn   == <<"x","n","o","N","E","x">>
eEmpty    == <<>>
eQuestion == <<"q","u","e","s","t","i","o","n"," ">>

Entries == {eBug, eAlert, eNonsense, eNone, eNoneIn, eEmpty, eQuestion}

\* "Bug, Alert, nonsense-label"
ExampleOutput == join(<<eBug, eAlert, eNonsense>>, ",")

Label(n, d) == [name |-> n, description |-> d]

\* label sets of a repository, as GET labels returns them
RepoLabelSets ==
    { <<Label(sBug, "bug report"), Label(sQuestion, "question"),
        Label(sAlert, "spam")>>,
      <<Label(s_bug, "bug report"), Label(s_question, ""),
        Label(s_helpwanted, "help"), Label(sTODO, "todo")>>,
      <<Label(lower(sAlert), "alerts"), Label(sBug, "")>> }

\* labels already on an item, lowercased
CurrentLabelSets == { <<>>, <<s_bug>> }

Scripts == {"first_interaction", "autolabel_issue"}

OriginalTitle == "original title"
OriginalBody  == <<"h","i","<","!","-","-","x","-","-",">"," ">>

\* the remote item the event is about, with what the run can change of it
Item(labels) ==
    [title |-> OriginalTitle, body |-> OriginalBody, state |-> "open",
     locked |-> FALSE, labels |-> labels, comments |-> 0, author_blocked |-> FALSE]

NoItem == Item(<<>>)

----------------------------------------------------------------------------
(* get_relevant_labels on its own *)

ParseInit ==
    /\ script \in Scripts
    /\ repo_labels \in RepoLabelSets
    /\ label_descriptions = repo_labels
    /\ current_labels \in CurrentLabelSets
    /\ completion \in Entries
    /\ suggested_labels = <<>>
    /\ relevant_labels = <<>>
    /\ pc = "p_build"
    /\ GITHUB_EVENT_NAME = "issues"
    /\ event_action = "opened"
    /\ BLOCK_USER = FALSE
    /\ item = NoItem
    /\ issue_type = "issue"
    /\ title = "title"
    /\ body = "body"
    /\ member_status = 0
    /\ first_prompt = <<>>
    /\ trace = <<>>
    /\ raised = "none"
    /\ PrIdle
    /\ LinkIdle

\* the model writes one more comma-separated entry
WriteEntry(e) ==
    /\ pc = "p_build"
    /\ Len(split(completion, ",")) < MaxEntries
    /\ completion' = completion \o <<",">> \o e
    /\ UNCHANGED <<linkVars, prVars, envVars,
                   remoteVars, pc, eventVars, label_descriptions,
                   current_labels, suggested_labels, relevant_labels,
                   member_status, first_prompt, trace, raised>>

\* get_relevant_labels(issue_type, title, body, label_descriptions, current_labels)
ParseCompletion ==
    /\ pc = "p_build"
    /\ pc' = "p_done"
    /\ label_descriptions' = Candidates(script, label_descriptions, current_labels)
    /\ suggested_labels' = get_completion(completion)
    /\ relevant_labels' =
           RelevantLabels(script, completion, label_descriptions, current_labels)
    /\ UNCHANGED <<linkVars, prVars, envVars,
                   remoteVars, eventVars, current_labels, completion,
                   member_status, first_prompt, trace, raised>>

ParseNext ==
    \/ \E e \in Entries : WriteEntry(e)
    \/ ParseCompletion

SpecParse == ParseInit /\ [][ParseNext]_vars

----------------------------------------------------------------------------
(* The candidate labels of get_relevant_labels, over many repositories *)

\* no label of the repository, or one label under one of the given names
OptLabel(ns) == {<<>>} \cup {<<Label(n, "")>> : n \in ns}

\* label sets of a repository: each label is absent or present, some of them
\* in one of two spellings (label names are unique up to case on the remote)
RepoLabelChoices ==
    {b \o q \o h \o t \o a :
        b \in OptLabel({s_bug, sBug}), q \in OptLabel({s_question, sQuestion}),
        h \in OptLabel({s_helpwanted}), t \in OptLabel({sTODO}),
        a \in OptLabel({sAlert, lower(sAlert)})}

\* labels already on an item, lowercased as main() passes them
CurrentLabelChoices == { <<>>, <<s_bug>>, <<s_question>>, <<s_bug, s_question>> }

\* "help wanted,TODO,todo,bug,question,alert": an answer naming every label
NamesEveryLabel ==
    join(<<s_helpwanted, sTODO, lower(sTODO), s_bug, s_question, lower(sAlert)>>, ",")

AnswerTexts == {NamesEveryLabel, ExampleOutput}

CandidatesInit ==
    /\ script \in Scripts
    /\ repo_labels \in RepoLabelChoices
    /\ label_descriptions = repo_labels
    /\ current_labels \in CurrentLabelChoices
    /\ \A c \in Range(current_labels) : InLower(repo_labels, c)
    /\ completion \in AnswerTexts
    /\ suggested_labels = <<>>
    /\ relevant_labels = <<>>
    /\ pc = "p_build"
    /\ GITHUB_EVENT_NAME = "issues"
    /\ event_action = "opened"
    /\ BLOCK_USER = FALSE
    /\ item = NoItem
    /\ issue_type = "issue"
    /\ title = "title"
    /\ body = "body"
    /\ member_status = 0
    /\ first_prompt = <<>>
    /\ trace = <<>>
    /\ raised = "none"
    /\ PrIdle
    /\ LinkIdle

CandidatesNext == ParseCompletion

SpecCandidates == CandidatesInit /\ [][CandidatesNext]_vars

----------------------------------------------------------------------------
(* Remote API *)

\* response statuses of the remote
Statuses == {200, 204, 404}

\* a GraphQL answer: the HTTP status and which top-level keys the payload has
GraphqlResponses ==
    {r \in [status : Statuses, data : BOOLEAN, errors : BOOLEAN] :
        r.status # 200 => (~r.data /\ ~r.errors)}

\* r.raise_for_status() followed by r.json(): an error status raises HTTPError,
\* and of the success statuses only 200 carries the JSON body the caller reads
RaisesOnRead(status) == status # 200

\* graphql_request: raises like every read; otherwise returns the payload
GraphqlRaises(r) == RaisesOnRead(r.status)

\* success = "data" in result and not result.get("errors")
GraphqlSuccess(r) == r.data /\ ~r.errors

Verdict(ok) == IF ok THEN "Successful" ELSE "Fail"

\* what graphql_request prints: the verdict and result.get('errors', 'No errors')
GraphqlPrint(r) ==
    <<Verdict(GraphqlSuccess(r)), IF r.errors THEN "errors" ELSE "No errors">>

\* one remote request: the operation, what was sent (for a completion: the
\* status it was answered with), the verdicts printed for it
Req(op, arg, log) == [op |-> op, arg |-> arg, log |-> log]

\* the remote carries out a write it answers with a 2xx status
Accepted(status) == status < 300

NewTitle == "Content Under Review"
NewBody  == <<"f","l","a","g","g","e","d">>

\* remove_html_comments: re.sub(r"<!--.*?-->", "", body, flags=re.DOTALL).strip()
CommentOpen  == <<"<","!","-","-">>
CommentClose == <<"-","-",">">>

RECURSIVE RemoveComments(_)
RemoveComments(s) ==
    LET opens == {i \in 1..Len(s) - 3 : SubSeq(s, i, i + 3) = CommentOpen}
        pairs == {<<i, j>> \in opens \X (1..Len(s) - 2) :
                     j >= i + 4 /\ SubSeq(s, j, j + 2) = CommentClose}
    IN  IF pairs = {} THEN s
        ELSE LET i == CHOOSE i \in opens :
                          /\ \E p \in pairs : p[1] = i
                          /\ \A p \in pairs : i <= p[1]
                 j == CHOOSE j \in 1..Len(s) :
                          /\ <<i, j>> \in pairs
                          /\ \A p \in pairs : p[1] = i => j <= p[2]
             IN  SubSeq(s, 1, i - 1) \o RemoveComments(SubSeq(s, j + 3, Len(s)))

remove_html_comments(text) == strip(RemoveComments(text))

----------------------------------------------------------------------------
(* main() of first_interaction.py *)

EventNames == {"issues", "pull_request", "pull_request_target", "discussion", "push"}

EventActions == {"opened", "created", "edited"}

\* complete answers of the model to the classification prompt
CompletionTexts ==
    { ExampleOutput, eNone, eQuestion, eAlert, eNonsense,
      join(<<eBug, eNoneIn>>, ",") }

Init ==
    /\ script = "first_interaction"
    /\ GITHUB_EVENT_NAME \in EventNames
    /\ event_action \in EventActions
    /\ BLOCK_USER \in BOOLEAN
    /\ repo_labels \in RepoLabelSets
    /\ \E on \in {<<>>, <<repo_labels[1].name>>} : item = Item(on)
    /\ pc = "start"
    /\ issue_type = ""
    /\ title = ""
    /\ body = <<>>
    /\ label_descriptions = <<>>
    /\ current_labels = <<>>
    /\ completion = <<>>
    /\ suggested_labels = <<>>
    /\ relevant_labels = <<>>
    /\ member_status = 0
    /\ first_prompt = <<>>
    /\ trace = <<>>
    /\ raised = "none"
    /\ PrIdle
    /\ LinkIdle

\* an exception leaves main() through the call to fn
Raise(fn) == pc' = "raised" /\ raised' = fn

Goto(l) == pc' = l /\ UNCHANGED raised

SupportedEvents == {"issues", "pull_request", "pull_request_target", "discussion"}

\* mutant: an event of any other name is read like an issue event
EventKindDefaultIssue(name) ==
    CASE name \in {"pull_request", "pull_request_target"} -> "pull request"
      [] name = "discussion" -> "discussion"
      [] OTHER -> "issue"

\* the if / elif chain of get_event_content over the event name; its else
\* branch raises ValueError
EventKind(name) ==
    CASE name = "issues" -> "issue"
      [] name \in {"pull_request", "pull_request_target"} -> "pull request"
      [] name = "discussion" -> "discussion"
      [] OTHER -> "unsupported"

\* get_event_content(): a pull request is read from the remote, an issue and
\* a discussion from the event payload
GetEventContent ==
    /\ pc = "start"
    /\ LET kind == EventKind(GITHUB_EVENT_NAME)
       IN  IF kind = "unsupported"
           THEN /\ Raise("get_event_content")
                /\ UNCHANGED <<eventVars, trace>>
           ELSE \E st \in IF kind = "pull request" THEN Statuses ELSE {200} :
                  /\ trace' = IF kind = "pull request"
                              THEN Append(trace, Req("get_pull", <<>>, <<>>))
                              ELSE trace
                  /\ IF kind = "pull request" /\ RaisesOnRead(st)
                     THEN Raise("get_event_content") /\ UNCHANGED eventVars
                     ELSE /\ issue_type' = kind
                          /\ title' = item.title
                          /\ body' = remove_html_comments(item.body)
                          /\ Goto("labels")
    /\ UNCHANGED <<linkVars, prVars, envVars,
                   remoteVars, labelVars, member_status, first_prompt>>

\* available_labels = get_github_data("labels"); label_descriptions = {...}
FetchLabels ==
    /\ pc = "labels"
    /\ \E st \in Statuses :
          /\ trace' = Append(trace, Req("get_labels", <<>>, <<>>))
          /\ IF RaisesOnRead(st)
             THEN Raise("get_github_data") /\ UNCHANGED label_descriptions
             ELSE label_descriptions' = repo_labels /\ Goto("current")
    /\ UNCHANGED <<linkVars, prVars, envVars,
                   remoteVars, eventVars, current_labels, completion,
                   suggested_labels, relevant_labels, member_status, first_prompt>>

\* mutant: the labels of every kind of item are fetched
NoLabelFetchNever(kind) == FALSE

\* if issue_type == "discussion": current_labels = []
NoLabelFetch(kind) == kind = "discussion"

\* current_labels: [] for a discussion, else the item's labels lowercased
FetchCurrentLabels ==
    /\ pc = "current"
    /\ IF NoLabelFetch(issue_type)
       THEN current_labels' = <<>> /\ Goto("classify") /\ UNCHANGED trace
       ELSE \E st \in Statuses :
               /\ trace' = Append(trace, Req("get_item_labels", <<>>, <<>>))
               /\ IF RaisesOnRead(st)
                  THEN Raise("get_github_data") /\ UNCHANGED current_labels
                  ELSE /\ current_labels' =
                              [i \in DOMAIN item.labels |-> lower(item.labels[i])]
                       /\ Goto("classify")
    /\ UNCHANGED <<linkVars, prVars, envVars,
                   remoteVars, eventVars, label_descriptions, completion,
                   suggested_labels, relevant_labels, member_status, first_prompt>>

\* mutant: the labels are applied whatever the result
HasLabelsAlways(labels) == TRUE

\* if relevant_labels:
HasLabels(labels) == labels # <<>>

\* mutant: the status of the completion response is not looked at
CompletionNeverRaises(status) == FALSE

\* get_completion: one POST, then r.raise_for_status() and r.json(); there is
\* no loop and no except around them
CompletionRaises(status) == status # 200

\* relevant_labels = get_relevant_labels(...): the candidates are fixed in the
\* caller's dict before the completion is requested
GetRelevantLabels ==
    /\ pc = "classify"
    /\ label_descriptions' = Candidates(script, label_descriptions, current_labels)
    /\ \E st \in Statuses, content \in CompletionTexts :
          /\ trace' = Append(trace, Req("completion", <<st>>, <<>>))
          /\ IF CompletionRaises(st)
             THEN /\ Raise("get_relevant_labels")
                  /\ UNCHANGED <<completion, suggested_labels, relevant_labels>>
             ELSE /\ completion' = content
                  /\ suggested_labels' = get_completion(content)
                  /\ relevant_labels' =
                         RelevantLabels(script, content, label_descriptions,
                                        current_labels)
                  /\ IF HasLabels(relevant_labels')
                     THEN Goto("apply") ELSE Goto("event")
    /\ UNCHANGED <<linkVars, prVars, envVars,
                   remoteVars, eventVars, current_labels, member_status,
                   first_prompt>>

\* mutant: every non-empty result is moderated
IsAlertNonEmpty(labels) == labels # <<>>

\* if "Alert" in relevant_labels and ...
IsAlert(labels) == sAlert \in Range(labels)

\* create_alert_label posts this label; the status of the answer is not read
AlertLabel == Label(sAlert, "Potential spam, abuse, or off-topic.")

\* the remote creates a label unless one of that name exists, whatever the case
RepoAfterCreate(repo, status) ==
    IF Accepted(status) /\ ~\E i \in DOMAIN repo : lower(repo[i].name) = lower(sAlert)
    THEN Append(repo, AlertLabel)
    ELSE repo

\* get_label_ids: the labels found in the repository, [] when the payload has no data
get_label_ids(labels, r, repo) ==
    IF r.data
    THEN SelectSeq(labels,
                   LAMBDA l : \E i \in DOMAIN repo : lower(repo[i].name) = lower(l))
    ELSE <<>>

\* the remote adds labels to the item
AddLabels(it, labels) ==
    [it EXCEPT !.labels =
        @ \o SelectSeq(labels, LAMBDA l : \A i \in DOMAIN @ : @[i] # l)]

\* mutant: apply_labels never creates the label
CreatesAlertLabelNever(labels) == FALSE

\* if "Alert" in labels: create_alert_label()
CreatesAlertLabel(labels) == sAlert \in Range(labels)

\* apply_labels(number, node_id, relevant_labels, issue_type)
ApplyLabels ==
    /\ pc = "apply"
    /\ \E st0 \in Statuses :
        LET alert == CreatesAlertLabel(relevant_labels)
            pre   == IF alert THEN <<Req("create_alert_label", <<sAlert>>, <<>>)>>
                     ELSE <<>>
            repo1 == IF alert THEN RepoAfterCreate(repo_labels, st0) ELSE repo_labels
            after == IF IsAlert(relevant_labels) THEN "member" ELSE "event"
        IN  /\ repo_labels' = repo1
            /\ IF issue_type = "discussion"
               THEN \E r1 \in GraphqlResponses :
                      IF GraphqlRaises(r1)
                      THEN /\ trace' = trace \o pre \o
                                  <<Req("get_label_ids", relevant_labels, <<>>)>>
                           /\ Raise("apply_labels")
                           /\ UNCHANGED item
                      ELSE LET ids == get_label_ids(relevant_labels, r1, repo1)
                               q   == Req("get_label_ids", relevant_labels,
                                          GraphqlPrint(r1))
                           IN  IF ids = <<>>
                               THEN /\ trace' = trace \o pre \o <<q>>
                                    /\ Goto(after)
                                    /\ UNCHANGED item
                               ELSE \E r2 \in GraphqlResponses :
                                      IF GraphqlRaises(r2)
                                      THEN /\ trace' = trace \o pre \o
                                                <<q, Req("apply_labels", ids, <<>>)>>
                                           /\ Raise("apply_labels")
                                           /\ UNCHANGED item
                                      ELSE /\ trace' = trace \o pre \o
                                                <<q, Req("apply_labels", ids,
                                                         GraphqlPrint(r2) \o
                                                           <<Verdict(~r2.errors)>>)>>
                                           /\ item' = IF GraphqlSuccess(r2)
                                                      THEN AddLabels(item, ids)
                                                      ELSE item
                                           /\ Goto(after)
               ELSE \E st \in Statuses :
                      /\ trace' = trace \o pre \o
                             <<Req("apply_labels", relevant_labels,
                                   <<Verdict(st = 200)>>)>>
                      /\ item' = IF Accepted(st) THEN AddLabels(item, relevant_labels)
                                 ELSE item
                      /\ Goto(after)
    /\ UNCHANGED <<linkVars, prVars, envVars,
                   eventVars, labelVars, member_status, first_prompt>>

\* mutant: 200 is taken for the member status
is_org_member_200(status) == status = 200

\* is_org_member: 204 means the user is a member
is_org_member(status) == status = 204

\* ... and not is_org_member(username)
IsOrgMember ==
    /\ pc = "member"
    /\ \E st \in Statuses :
          /\ member_status' = st
          /\ trace' = Append(trace, Req("is_org_member", <<>>, <<>>))
          /\ IF is_org_member(st) THEN Goto("event") ELSE Goto("update")
    /\ UNCHANGED <<linkVars, prVars, envVars,
                   remoteVars, eventVars, labelVars, first_prompt>>

\* A write to the item: a GraphQL mutation for a discussion, which raises on an
\* error status and prints graphql_request's verdict, else a REST request whose
\* status is printed as successful when it is in okRest.  changed is the item
\* once the remote has carried the write out.
ItemWrite(op, arg, fn, okRest, changed, after) ==
    IF issue_type = "discussion"
    THEN \E r \in GraphqlResponses :
           IF GraphqlRaises(r)
           THEN /\ trace' = Append(trace, Req(op, arg, <<>>))
                /\ Raise(fn)
                /\ UNCHANGED item
           ELSE /\ trace' = Append(trace, Req(op, arg, GraphqlPrint(r)))
                /\ item' = IF GraphqlSuccess(r) THEN changed ELSE item
                /\ Goto(after)
    ELSE \E st \in Statuses :
           /\ trace' = Append(trace, Req(op, arg, <<Verdict(st \in okRest)>>))
           /\ item' = IF Accepted(st) THEN changed ELSE item
           /\ Goto(after)

\* mutant: every kind is closed
ClosesEveryKind(kind) == TRUE

\* if issue_type != "pull request": close_issue_pr(...)
ClosesKind(kind) == kind # "pull request"

\* update_issue_pr_content(number, node_id, issue_type)
UpdateIssuePrContent ==
    /\ pc = "update"
    /\ ItemWrite("update", <<NewTitle, NewBody>>, "update_issue_pr_content",
                 {200}, [item EXCEPT !.title = NewTitle, !.body = NewBody],
                 IF ClosesKind(issue_type) THEN "close" ELSE "lock")
    /\ UNCHANGED <<linkVars, prVars, envVars,
                   repo_labels, eventVars, labelVars, member_status,
                   first_prompt>>

\* close_issue_pr(number, node_id, issue_type)
CloseIssuePr ==
    /\ pc = "close"
    /\ ItemWrite("close", <<>>, "close_issue_pr",
                 {200}, [item EXCEPT !.state = "closed"],
                 "lock")
    /\ UNCHANGED <<linkVars, prVars, envVars,
                   repo_labels, eventVars, labelVars, member_status,
                   first_prompt>>

\* mutant: the author is blocked whatever the switch says
BlockEnabledAlways(switch) == TRUE

\* if BLOCK_USER:
BlockEnabled(switch) == switch

\* lock_issue_pr(number, node_id, issue_type)
LockIssuePr ==
    /\ pc = "lock"
    /\ ItemWrite("lock", <<"off-topic">>, "lock_issue_pr",
                 {200, 204}, [item EXCEPT !.locked = TRUE],
                 IF BlockEnabled(BLOCK_USER) THEN "block" ELSE "event")
    /\ UNCHANGED <<linkVars, prVars, envVars,
                   repo_labels, eventVars, labelVars, member_status,
                   first_prompt>>

\* block_user(username)
BlockUser ==
    /\ pc = "block"
    /\ \E st \in Statuses :
          /\ trace' = Append(trace, Req("block_user", <<>>, <<Verdict(st = 204)>>))
          /\ item' = IF Accepted(st) THEN [item EXCEPT !.author_blocked = TRUE]
                     ELSE item
          /\ Goto("event")
    /\ UNCHANGED <<linkVars, prVars, envVars,
                   repo_labels, eventVars, labelVars, member_status,
                   first_prompt>>

\* mutant: every event is answered
IsNewItemAlways(action) == TRUE

\* if event_data.get("action") in ["opened", "created"]:
IsNewItem(action) == action \in {"opened", "created"}

ReadEventAction ==
    /\ pc = "event"
    /\ IF IsNewItem(event_action) THEN Goto("respond") ELSE Goto("done")
    /\ UNCHANGED <<linkVars, prVars, envVars,
                   remoteVars, eventVars, labelVars, member_status,
                   first_prompt, trace>>

\* custom_response = get_first_interaction_response(issue_type, title, body, ...):
\* the diff is fetched for a pull request ("" unless 200), then the completion
GetFirstInteractionResponse ==
    /\ pc = "respond"
    /\ first_prompt' = <<title, body>>
    /\ \E sd \in Statuses, st \in Statuses :
        LET diff == IF issue_type = "pull request"
                    THEN <<Req("get_pr_diff", <<>>, <<Verdict(sd = 200)>>)>>
                    ELSE <<>>
        IN  /\ trace' = trace \o diff \o <<Req("response_completion", <<st>>, <<>>)>>
            /\ IF CompletionRaises(st)
               THEN Raise("get_first_interaction_response")
               ELSE Goto("comment")
    /\ UNCHANGED <<linkVars, prVars, envVars,
                   remoteVars, eventVars, labelVars, member_status>>

\* add_comment(number, node_id, custom_response, issue_type)
AddComment ==
    /\ pc = "comment"
    /\ ItemWrite("add_comment", <<>>, "add_comment",
                 {200, 201}, [item EXCEPT !.comments = @ + 1],
                 "done")
    /\ UNCHANGED <<linkVars, prVars, envVars,
                   repo_labels, eventVars, labelVars, member_status,
                   first_prompt>>

Next ==
    \/ GetEventContent
    \/ FetchLabels
    \/ FetchCurrentLabels
    \/ GetRelevantLabels
    \/ ApplyLabels
    \/ IsOrgMember
    \/ UpdateIssuePrContent
    \/ CloseIssuePr
    \/ LockIssuePr
    \/ BlockUser
    \/ ReadEventAction
    \/ GetFirstInteractionResponse
    \/ AddComment

Spec == Init /\ [][Next]_vars

----------------------------------------------------------------------------
(* update_pr_description of src/actions/summarize_pr.py *)

\* bound on the max_retries the function is called with
MaxRetriesBound == 3

\* bound on the number of calls for one pull request
MaxRuns == 2

\* def update_pr_description(..., max_retries=2): main() passes no other value
DefaultMaxRetries == 2

Newlines == <<"\n", "\n">>

\* start = "## PR Summary" (its emoji left out), the head of SUMMARY_START
start == <<"#","#"," ","P","R"," ","S","u","m","m","a","r","y">>

SUMMARY_START == start \o Newlines \o <<"<","s","u","b",">">> \o Newlines

\* generate_pr_summary returns SUMMARY_START + reply; the reply is the
\* model's text, which may itself quote the marker
Summaries ==
    { SUMMARY_START \o <<"r","1">>, SUMMARY_START \o <<"r","2">>,
      SUMMARY_START \o <<"r","3">> \o start }

\* bodies of a pull request: none, the author's text, the text followed by
\* an earlier summary
PrBodies ==
    { <<>>, <<"t","e","x","t">>,
      <<"t","e","x","t">> \o Newlines \o SUMMARY_START \o <<"r","0">> }

\* description.split(start)[0]
BeforeFirst(s, sub) ==
    LET hits == {k \in 1..(Len(s) - Len(sub) + 1) :
                    SubSeq(s, k, k + Len(sub) - 1) = sub}
    IN  IF hits = {} THEN s
        ELSE SubSeq(s, 1, (CHOOSE k \in hits : \A h \in hits : k <= h) - 1)

\* mutant: the summary is appended whatever the description holds
UpdatedDescriptionAppended(descr, summary) == descr \o Newlines \o summary

\* the body sent: an existing summary is replaced, else the summary is appended
UpdatedDescription(descr, summary) ==
    IF contains(start, descr) THEN BeforeFirst(descr, start) \o summary
    ELSE descr \o Newlines \o summary

\* mutant: range(max_retries)
LoopBoundRetries(retries) == retries

\* for i in range(max_retries + 1)
LoopBound(retries) == retries + 1

DescriptionInit ==
    /\ max_retries \in 0..MaxRetriesBound
    /\ new_summary \in Summaries
    /\ pr_body \in PrBodies
    /\ retry_i = 0
    /\ description = <<>>
    /\ fetched = <<>>
    /\ sleeps = 0
    /\ updated_description = <<>>
    /\ patch_status = 0
    /\ runs = 1
    /\ last_summary = <<>>
    /\ last_sent = <<>>
    /\ pc = IF 0 < LoopBound(max_retries) THEN "d_fetch" ELSE "d_update"
    /\ script = "summarize_pr"
    /\ GITHUB_EVENT_NAME = "pull_request"
    /\ event_action = "opened"
    /\ BLOCK_USER = FALSE
    /\ repo_labels = <<>>
    /\ item = NoItem
    /\ issue_type = "pull request"
    /\ title = ""
    /\ body = <<>>
    /\ label_descriptions = <<>>
    /\ current_labels = <<>>
    /\ completion = <<>>
    /\ suggested_labels = <<>>
    /\ relevant_labels = <<>>
    /\ member_status = 0
    /\ first_prompt = <<>>
    /\ trace = <<>>
    /\ raised = "none"
    /\ LinkIdle

mainVars == <<envVars, remoteVars, eventVars, labelVars, member_status,
              first_prompt, trace, raised>>

\* one pass of the loop: the GET answers with the body of the pull request or
\* with none yet (body null), and `or ""` makes that the empty text
FetchDescription ==
    /\ pc = "d_fetch"
    /\ \E b \in {<<>>, pr_body} :
          /\ description' = b
          /\ fetched' = Append(fetched, b)
          /\ IF b # <<>>
             THEN /\ pc' = "d_update"
                  /\ UNCHANGED <<retry_i, sleeps>>
             ELSE /\ sleeps' = IF retry_i < max_retries THEN sleeps + 1 ELSE sleeps
                  /\ retry_i' = retry_i + 1
                  /\ pc' = IF retry_i + 1 < LoopBound(max_retries)
                           THEN "d_fetch" ELSE "d_update"
    /\ UNCHANGED <<mainVars, linkVars, max_retries, new_summary, pr_body,
                   updated_description, patch_status, runs, last_summary,
                   last_sent>>

\* the PATCH of the new body; its status is returned
PatchDescription ==
    /\ pc = "d_update"
    /\ updated_description' = UpdatedDescription(description, new_summary)
    /\ \E st \in Statuses :
          /\ patch_status' = st
          /\ pr_body' = IF Accepted(st) THEN updated_description' ELSE pr_body
    /\ pc' = "d_done"
    /\ UNCHANGED <<mainVars, linkVars, max_retries, new_summary, retry_i,
                   description, fetched, sleeps, runs, last_summary, last_sent>>

\* the action runs again on the pull request (a later push): main() calls
\* update_pr_description with the summary generate_pr_summary made this time
CallAgain ==
    /\ pc = "d_done"
    /\ runs < MaxRuns
    /\ runs' = runs + 1
    /\ last_summary' = new_summary
    /\ last_sent' = updated_description
    /\ new_summary' \in Summaries
    /\ retry_i' = 0
    /\ description' = <<>>
    /\ fetched' = <<>>
    /\ sleeps' = 0
    /\ updated_description' = <<>>
    /\ patch_status' = 0
    /\ pc' = IF 0 < LoopBound(max_retries) THEN "d_fetch" ELSE "d_update"
    /\ UNCHANGED <<mainVars, linkVars, max_retries, pr_body>>

DescriptionNext ==
    \/ FetchDescription
    \/ PatchDescription
    \/ CallAgain

SpecDescription == DescriptionInit /\ [][DescriptionNext]_vars

----------------------------------------------------------------------------
(* check_links_in_string and is_url of src/actions/utils/common_utils.py *)

\* bound on the number of URLs found in a text
MaxUrls == 3

\* def is_url(url, check=True, max_attempts=3, timeout=2)
max_attempts == 3

\* A URL found in a text: its name, the punctuation the pattern caught after
\* it, whether an allow-list entry is a substring of it, whether urlparse
\* finds a network location in it (a scheme it has, or it would not have been
\* collected), and whether the remote answers a HEAD for it with a status
\* below 400.
Url(n, t, allowed, netloc, alive) ==
    [name |-> n, tail |-> t, allowed |-> allowed, netloc |-> netloc, alive |-> alive]

UrlsFound ==
    {Url(u[1], t, u[2], u[3], u[4]) :
        u \in { <<"https://github.com/private", TRUE, TRUE, FALSE>>,
                <<"https://ultralytics.com/gone", FALSE, TRUE, FALSE>>,
                <<"https://ultralytics.com", FALSE, TRUE, TRUE>>,
                <<"file:notes", FALSE, FALSE, FALSE>> },
        t \in {"", "."}}

\* clean_url: quotes and trailing punctuation are stripped
clean_url(url) == [url EXCEPT !.tail = ""]

\* Evaluating requests.head(...): common_utils.py never imports requests, so
\* the name is unbound and NameError is raised before a request is sent,
\* whatever the URL
HeadRaises(url) == TRUE

\* the loop `for attempt in range(max_attempts)` of is_url, from one attempt on
RECURSIVE CheckResponse(_, _)
CheckResponse(url, attempt) ==
    IF attempt >= max_attempts THEN FALSE
    ELSE IF HeadRaises(url)
         THEN IF attempt = max_attempts - 1 THEN FALSE
              ELSE CheckResponse(url, attempt + 1)
         ELSE url.alive

\* is_url(url, check=True)
is_url(url) ==
    IF url.allowed THEN TRUE
    ELSE IF ~url.netloc THEN FALSE
    ELSE CheckResponse(url, 0)

LinksInit ==
    /\ all_urls \in UNION {[1..n -> UrlsFound] : n \in 0..MaxUrls}
    /\ bad_urls = {}
    /\ passing = TRUE
    /\ UrlIdle
    /\ pc = "l_check"
    /\ PrIdle
    /\ script = "common_utils"
    /\ GITHUB_EVENT_NAME = "pull_request"
    /\ event_action = "opened"
    /\ BLOCK_USER = FALSE
    /\ repo_labels = <<>>
    /\ item = NoItem
    /\ issue_type = ""
    /\ title = ""
    /\ body = <<>>
    /\ label_descriptions = <<>>
    /\ current_labels = <<>>
    /\ completion = <<>>
    /\ suggested_labels = <<>>
    /\ relevant_labels = <<>>
    /\ member_status = 0
    /\ first_prompt = <<>>
    /\ trace = <<>>
    /\ raised = "none"

\* check_links_in_string(text, return_bad=True), from the URLs found on: the
\* cleaned URLs are made unique, each is checked (in a pool of threads that
\* share nothing), and the ones is_url rejects are collected
CheckLinksInString ==
    /\ pc = "l_check"
    /\ LET urls == {clean_url(u) : u \in Range(all_urls)}
       IN  /\ bad_urls' = {u \in urls : ~is_url(u)}
           /\ passing' = (bad_urls' = {})
    /\ pc' = "l_done"
    /\ UNCHANGED <<mainVars, prVars, urlVars, all_urls>>

LinksNext == CheckLinksInString

SpecLinks == LinksInit /\ [][LinksNext]_vars

----------------------------------------------------------------------------
(* is_url of src/actions/utils/common_utils.py, attempt by attempt *)

\* bound on the max_attempts is_url is called with
MaxAttemptsBound == 4

RECURSIVE Pow2(_)
Pow2(n) == IF n = 0 THEN 1 ELSE 2 * Pow2(n - 1)

\* What one pass of the try block can come to.  With requests unbound it is
\* the NameError; were a request sent, a URL that is alive would be answered
\* with a status below 400 and any other with an error status or not at all.
HeadOutcomes(url) ==
    IF HeadRaises(url) THEN {"NameError"}
    ELSE IF url.alive THEN {"status < 400"}
    ELSE {"status >= 400", "no response"}

IsUrlInit ==
    /\ checked_url \in UrlsFound
    /\ check \in BOOLEAN
    /\ attempts_allowed \in 1..MaxAttemptsBound
    /\ attempt_i = 0
    /\ head_requests = 0
    /\ waits = <<>>
    /\ url_result = "none"
    /\ all_urls = <<>>
    /\ bad_urls = {}
    /\ passing = TRUE
    /\ pc = "u_start"
    /\ PrIdle
    /\ script = "common_utils"
    /\ GITHUB_EVENT_NAME = "pull_request"
    /\ event_action = "opened"
    /\ BLOCK_USER = FALSE
    /\ repo_labels = <<>>
    /\ item = NoItem
    /\ issue_type = ""
    /\ title = ""
    /\ body = <<>>
    /\ label_descriptions = <<>>
    /\ current_labels = <<>>
    /\ completion = <<>>
    /\ suggested_labels = <<>>
    /\ relevant_labels = <<>>
    /\ member_status = 0
    /\ first_prompt = <<>>
    /\ trace = <<>>
    /\ raised = "none"

Return(value) == url_result' = value /\ pc' = "u_done"

\* is_url up to the loop: the allow list, the structure, the check switch
IsUrlEnter ==
    /\ pc = "u_start"
    /\ IF checked_url.allowed THEN Return("True")
       ELSE IF ~checked_url.netloc THEN Return("False")
       ELSE IF ~check THEN Return("True")
       ELSE pc' = "u_attempt" /\ UNCHANGED url_result
    /\ UNCHANGED <<mainVars, prVars, all_urls, bad_urls, passing, checked_url, check,
                   attempts_allowed, attempt_i, head_requests, waits>>

\* one pass of `for attempt in range(max_attempts)`: the try block, and the
\* except block when the try block raised
IsUrlAttempt ==
    /\ pc = "u_attempt"
    /\ \E outcome \in HeadOutcomes(checked_url) :
          /\ head_requests' = IF outcome = "NameError" THEN head_requests
                              ELSE head_requests + 1
          /\ IF outcome \in {"status < 400", "status >= 400"}
             THEN /\ Return(IF outcome = "status < 400" THEN "True" ELSE "False")
                  /\ UNCHANGED <<attempt_i, waits>>
             ELSE IF attempt_i = attempts_allowed - 1
                  THEN Return("False") /\ UNCHANGED <<attempt_i, waits>>
                  ELSE /\ waits' = Append(waits, Pow2(attempt_i))
                       /\ attempt_i' = attempt_i + 1
                       /\ UNCHANGED <<pc, url_result>>
    /\ UNCHANGED <<mainVars, prVars, all_urls, bad_urls, passing, checked_url, check,
                   attempts_allowed>>

IsUrlNext ==
    \/ IsUrlEnter
    \/ IsUrlAttempt

SpecIsUrl == IsUrlInit /\ [][IsUrlNext]_vars

----------------------------------------------------------------------------
(* Claims about the moderation sequence, checked under Spec *)

Terminated == pc \in {"done", "raised"}

Made(op) == \E i \in DOMAIN trace : trace[i].op = op

AlertResult == sAlert \in Range(relevant_labels)

\* the membership request was answered with a status other than 204
NotMember == member_status \notin {0, 204}

\* the item as the event found it, labels and comments apart
Unmoderated ==
    /\ item.title = OriginalTitle
    /\ item.body = OriginalBody
    /\ item.state = "open"
    /\ ~item.locked
    /\ ~item.author_blocked

\* the edit, close and lock requests of the run, in order, with what they sent
ItemActions ==
    LET acts == SelectSeq(trace, LAMBDA q : q.op \in {"update", "close", "lock"})
    IN  [i \in DOMAIN acts |-> <<acts[i].op, acts[i].arg>>]

\* every label request comes before every edit, close and lock request
LabelsFirst ==
    \A i, j \in DOMAIN trace :
        (/\ trace[i].op \in {"create_alert_label", "get_label_ids", "apply_labels"}
         /\ trace[j].op \in {"update", "close", "lock"}) => i < j

\* C1: with "Alert" among the labels and a membership status other than 204, the
\* run makes, after applying the labels, exactly the requests edit (placeholder
\* title, policy body), close (not for a pull request), lock, in this order.
C1_ModerationSequence ==
    (Terminated /\ AlertResult /\ NotMember) =>
        /\ LabelsFirst
        /\ ItemActions =
               IF issue_type = "pull request"
               THEN << <<"update", <<NewTitle, NewBody>>>>, <<"lock", <<"off-topic">>>> >>
               ELSE << <<"update", <<NewTitle, NewBody>>>>, <<"close", <<>>>>,
                       <<"lock", <<"off-topic">>>> >>

\* C2: once the membership request is answered 204, no edit, close, lock or block
\* request is made and the item stays as it was, whatever the kind and the labels.
C2_MemberNotModerated ==
    member_status = 204 =>
        /\ \A i \in DOMAIN trace :
               trace[i].op \notin {"update", "close", "lock", "block_user"}
        /\ Unmoderated

C2_Witness ==
    /\ pc = "done"
    /\ member_status = 204
    /\ AlertResult
    /\ Made("apply_labels")
    /\ BLOCK_USER

\* C3: for a pull request with "Alert" among the labels and an author who is not
\* a member, no close request is made and the lock request is made.
C3_PullRequestNotClosed ==
    (Terminated /\ issue_type = "pull request" /\ AlertResult /\ NotMember) =>
        ~Made("close") /\ Made("lock")

C3_Witness ==
    /\ pc = "done"
    /\ issue_type = "pull request"
    /\ AlertResult
    /\ NotMember
    /\ item.locked
    /\ item.state = "open"

\* a request that raised (nothing printed) or for which "Fail" was printed
Failed(q) == q.log = <<>> \/ \E k \in DOMAIN q.log : q.log[k] = "Fail"

\* C4: a failed step of the sequence apply labels, edit, close, lock is followed
\* by the attempt of the next steps: after a failed label request the membership
\* is still checked, after a failed edit or close the lock is still requested.
C4_BestEffort ==
    (Terminated /\ AlertResult) =>
        \A i \in DOMAIN trace :
            Failed(trace[i]) =>
                /\ trace[i].op \in {"get_label_ids", "apply_labels"}
                       => member_status # 0
                /\ trace[i].op \in {"update", "close"}
                       => \E j \in DOMAIN trace : j > i /\ trace[j].op = "lock"

Capabilities ==
    {"apply_labels", "add_comment", "update_issue_pr_content", "close_issue_pr",
     "lock_issue_pr", "block_user"}

\* C5: no capability call lets an exception out, whatever the kind of the item
\* and the status of the answer.
C5_NeverRaises == raised \notin Capabilities

\* C6: with an empty result no label, membership, edit, close, lock or block
\* request is made and the item stays as it was.
C6_EmptyResultNoAction ==
    relevant_labels = <<>> =>
        /\ \A i \in DOMAIN trace :
               trace[i].op \notin
                   {"create_alert_label", "get_label_ids", "apply_labels",
                    "is_org_member", "update", "close", "lock", "block_user"}
        /\ member_status = 0
        /\ Unmoderated

C6_Witness ==
    /\ pc = "done"
    /\ completion = eNone
    /\ relevant_labels = <<>>
    /\ Made("add_comment")

\* C7: with a non-empty result without "Alert" the labels are applied and no
\* edit, close, lock or block request is made; the membership is not even asked.
C7_LabelsOnly ==
    (relevant_labels # <<>> /\ ~AlertResult) =>
        /\ \A i \in DOMAIN trace :
               trace[i].op \notin
                   {"is_org_member", "update", "close", "lock", "block_user"}
        /\ Unmoderated
        /\ Terminated => (Made("apply_labels") \/ Made("get_label_ids"))

C7_Witness ==
    /\ pc = "done"
    /\ Len(relevant_labels) = 1
    /\ ~AlertResult
    /\ Made("apply_labels")
    /\ item.labels # <<>>

----------------------------------------------------------------------------
(* Claims about get_relevant_labels, checked under SpecParse *)

Parsed == pc = "p_done"

\* the model output holds "none" in some letter case
OutputSaysNone == contains(s_none, lower(completion))

\* an entry of the output, trimmed, matches a candidate whatever the letter case
MatchesCandidate(entry) ==
    \E i \in DOMAIN label_descriptions :
        lower(label_descriptions[i].name) = lower(strip(entry))

\* C8: for an output without "none", the result is the output split on commas,
\* each entry trimmed, entries without a case-insensitive match among the
\* candidates dropped, each kept entry replaced by a candidate name of the same
\* lowercase form, in the order of the output; "Bug, Alert, nonsense-label"
\* against Bug, Question, Alert gives exactly Bug, Alert.
C8_ParsedResult ==
    (Parsed /\ ~OutputSaysNone) =>
        LET kept == SelectSeq(split(completion, ","), MatchesCandidate)
        IN  /\ Len(relevant_labels) = Len(kept)
            /\ \A i \in DOMAIN kept :
                   /\ has(label_descriptions, relevant_labels[i])
                   /\ lower(relevant_labels[i]) = lower(strip(kept[i]))
            /\ (/\ completion = ExampleOutput
                /\ names(label_descriptions) = <<sBug, sQuestion, sAlert>>)
                   => relevant_labels = <<sBug, sAlert>>

C8_Witness ==
    /\ Parsed
    /\ completion = ExampleOutput
    /\ names(label_descriptions) = <<sBug, sQuestion, sAlert>>
    /\ relevant_labels = <<sBug, sAlert>>

\* C9: an output that holds "none" in any letter case gives the empty result,
\* whatever else it holds.
C9_NoneIsEmpty == (Parsed /\ OutputSaysNone) => relevant_labels = <<>>

C9_Witness ==
    /\ Parsed
    /\ completion = join(<<eAlert, eBug, eNoneIn>>, ",")
    /\ has(label_descriptions, sAlert)
    /\ relevant_labels = <<>>

\* a name matches a label of the repository's label set whatever the letter case
MatchesRepoLabel(name) ==
    \E i \in DOMAIN repo_labels : lower(repo_labels[i].name) = lower(name)

\* C10 as stated: the result has at most 3 names, each a case-insensitive match
\* of a label of the repository's label set.
C10_AtMostThreeRepoLabels ==
    Parsed => /\ Len(relevant_labels) <= 3
              /\ \A i \in DOMAIN relevant_labels : MatchesRepoLabel(relevant_labels[i])

\* C10 amended: the result has at most as many names as the output has
\* comma-separated entries, each a case-insensitive match of a label of the
\* repository's label set or the name "Alert".
C10_BoundedByEntries ==
    Parsed => /\ Len(relevant_labels) <= Len(split(completion, ","))
              /\ \A i \in DOMAIN relevant_labels :
                     \/ MatchesRepoLabel(relevant_labels[i])
                     \/ relevant_labels[i] = sAlert

C10_Witness ==
    /\ Parsed
    /\ Len(relevant_labels) = 4
    /\ \E i \in DOMAIN relevant_labels : ~MatchesRepoLabel(relevant_labels[i])

----------------------------------------------------------------------------
(* Claims about the inputs of the classification, checked under Spec *)

\* C13: for a discussion the current labels passed to the classifier are the
\* empty sequence and the item's labels are never requested, so a bug or
\* question label of the repository stays a candidate whatever the
\* discussion carries.
C13_DiscussionNoCurrentLabels ==
    issue_type = "discussion" =>
        /\ current_labels = <<>>
        /\ ~Made("get_item_labels")
        /\ Made("completion") =>
             \A k \in {s_bug, s_question} :
                has(repo_labels, k) => has(label_descriptions, k)

\* a discussion that carries the bug label was classified with "question"
\* still among the candidates
C13_Witness ==
    /\ pc = "done"
    /\ issue_type = "discussion"
    /\ s_bug \in Range(item.labels)
    /\ Made("completion")
    /\ has(label_descriptions, s_question)

\* C14: under an event name other than issues, pull_request,
\* pull_request_target and discussion the run ends with an error raised by
\* get_event_content, before the classification and without any request.
C14_UnsupportedEventRaises ==
    GITHUB_EVENT_NAME \notin SupportedEvents =>
        /\ pc \in {"start", "raised"}
        /\ pc = "raised" => raised = "get_event_content"
        /\ trace = <<>>
        /\ issue_type = "" /\ relevant_labels = <<>>
        /\ item = Item(item.labels)

\* a push event: the run has ended with the error
C14_Witness ==
    /\ GITHUB_EVENT_NAME = "push"
    /\ pc = "raised"
    /\ raised = "get_event_content"

Reads == {"get_pull", "get_labels", "get_item_labels", "completion"}

\* C15: when the classification completion is answered with a failure, that
\* one attempt is the only one, the failure leaves main() as a raised error,
\* and nothing was applied to the item or done to it.
C15_CompletionFailurePropagates ==
    \A i \in DOMAIN trace :
        (trace[i].op = "completion" /\ trace[i].arg # <<200>>) =>
            /\ pc = "raised" /\ raised = "get_relevant_labels"
            /\ Cardinality({j \in DOMAIN trace : trace[j].op = "completion"}) = 1
            /\ \A j \in DOMAIN trace : trace[j].op \in Reads
            /\ relevant_labels = <<>>
            /\ item = Item(item.labels)

\* the completion was answered 404 for an item of a repository with labels
C15_Witness ==
    /\ raised = "get_relevant_labels"
    /\ \E i \in DOMAIN trace : trace[i] = Req("completion", <<404>>, <<>>)
    /\ label_descriptions # <<>>

\* C16: when the action of the event is neither "opened" nor "created", no
\* first-response completion is requested and no comment is posted.
C16_ResponseOnlyForNewItems ==
    event_action \notin {"opened", "created"} =>
        /\ ~Made("response_completion")
        /\ ~Made("get_pr_diff")
        /\ ~Made("add_comment")
        /\ first_prompt = <<>>
        /\ item.comments = 0

\* an edited item was labelled and the run ended without a comment
C16_Witness ==
    /\ pc = "done"
    /\ event_action = "edited"
    /\ Made("apply_labels")
    /\ ~Made("add_comment")

\* the positions in the trace of the requests of an operation
At(op) == {i \in DOMAIN trace : trace[i].op = op}

\* C19: the author is blocked only with the switch enabled, "Alert" among the
\* labels and an author who is not a member; the block request comes after
\* the lock request and no edit, close or lock request follows it; with the
\* switch disabled there is no block request.
C19_BlockLastAndOnlyIfEnabled ==
    /\ Made("block_user") =>
         /\ BLOCK_USER /\ AlertResult /\ NotMember
         /\ Cardinality(At("block_user")) = 1
         /\ At("lock") # {}
         /\ \A b \in At("block_user") :
               \A i \in At("update") \cup At("close") \cup At("lock") : i < b
    /\ ~BLOCK_USER => (~Made("block_user") /\ ~item.author_blocked)

\* the author of a locked item was blocked and the run went on to its end
C19_Witness ==
    /\ pc = "done"
    /\ BLOCK_USER
    /\ item.locked
    /\ item.author_blocked

\* the payload of the GraphQL answer to a request carried errors
WithErrors(q) == \E k \in DOMAIN q.log : q.log[k] = "errors"

\* C20: a GraphQL answer with status 200 and errors in its payload is a
\* failure for every caller: the request is reported failed and never
\* successful, and label IDs resolved from such an answer are not applied.
C20_ErrorsAreFailure ==
    \A i \in DOMAIN trace :
        WithErrors(trace[i]) =>
            /\ \A k \in DOMAIN trace[i].log : trace[i].log[k] # "Successful"
            /\ trace[i].op = "get_label_ids" =>
                   \A j \in DOMAIN trace : j > i => trace[j].op # "apply_labels"

LabelOps == {"create_alert_label", "get_label_ids", "apply_labels"}

\* C23: with a non-empty result the label application is attempted before the
\* membership check and before every moderation request, and also for a
\* member: with "Alert" in the result of a member's item the label is created
\* and the labels are applied, and no edit, close, lock or block follows.
C23_LabelsWhateverMembership ==
    /\ \A i \in DOMAIN trace :
          trace[i].op \in {"is_org_member", "update", "close", "lock", "block_user"}
             => /\ relevant_labels # <<>>
                /\ \E j \in 1..(i - 1) : trace[j].op \in LabelOps
                /\ \A j \in DOMAIN trace : trace[j].op \in LabelOps => j < i
    /\ (AlertResult /\ member_status = 204) =>
          /\ \E c \in At("create_alert_label") :
                \E m \in At("is_org_member") : c < m
          /\ IF issue_type = "discussion" THEN Made("get_label_ids")
             ELSE \E a \in At("apply_labels") : sAlert \in Range(trace[a].arg)
          /\ ~Made("update") /\ ~Made("close") /\ ~Made("lock")
          /\ ~Made("block_user")
          /\ Unmoderated

\* a member's issue was classified "Alert": the label was created in the
\* repository and is on the item, which is otherwise as the event found it
C23_Witness ==
    /\ pc = "done"
    /\ member_status = 204
    /\ AlertResult
    /\ repo_labels[Len(repo_labels)] = AlertLabel
    /\ sAlert \in Range(item.labels)
    /\ Unmoderated

\* the classification completion was answered and its result parsed
Classified == \E i \in At("completion") : trace[i].arg = <<200>>

\* C25: when the action is "opened" or "created" and the item was classified,
\* the first response is attempted whatever the labelling and the moderation
\* came to, after all of their requests, with the title and the body captured
\* from the event in its prompt; once the response is generated the comment
\* is posted.
C25_ResponseAfterModeration ==
    (Terminated /\ Classified /\ event_action \in {"opened", "created"}) =>
        /\ \E r \in At("response_completion") :
              /\ \A i \in DOMAIN trace :
                    trace[i].op \in LabelOps \cup
                        {"is_org_member", "update", "close", "lock", "block_user"}
                      => i < r
              /\ trace[r].arg = <<200>> =>
                    \E c \in At("add_comment") : r < c
        /\ first_prompt = <<OriginalTitle, remove_html_comments(OriginalBody)>>

----------------------------------------------------------------------------
(* Claims about the candidate labels, checked under SpecCandidates *)

Reserved == {s_helpwanted, sTODO}

\* C11: "help wanted" and "TODO" are never among the candidates that the
\* prompt is built from and the answer is validated against, so neither is
\* ever in the classification result, whatever the answer names.
C11_ReservedNeverCandidates ==
    Parsed =>
        /\ \A k \in Reserved : ~has(label_descriptions, k)
        /\ \A k \in Reserved : k \notin Range(relevant_labels)

\* the repository has both labels, the answer names both, and other labels
\* it names are in the result
C11_Witness ==
    /\ Parsed
    /\ \A k \in Reserved : has(repo_labels, k)
    /\ completion = NamesEveryLabel
    /\ relevant_labels # <<>>

\* a label is the bug (question) label when its lowercase form is that word,
\* as the scripts match label names everywhere else
Offered(k) == InLower(label_descriptions, k)

\* the exclusion left the repository's label k among the candidates
Kept(k) == InLower(repo_labels, k) => Offered(k)

\* C12: a current "bug" excludes the question label from the candidates, a
\* current "question" excludes the bug label, and with neither current
\* nothing is excluded.
C12_MutualExclusion ==
    Parsed =>
        /\ s_bug \in Range(current_labels) => ~Offered(s_question)
        /\ s_question \in Range(current_labels) => ~Offered(s_bug)
        /\ (s_bug \notin Range(current_labels)
              /\ s_question \notin Range(current_labels))
             => (Kept(s_bug) /\ Kept(s_question))

\* the description a dict holds under the name k
DescriptionOf(d, k) == d[CHOOSE i \in DOMAIN d : d[i].name = k].description

\* C21: in first_interaction the candidates always hold a label named
\* "Alert": with the fixed description when the repository has none, with the
\* repository's description when it has one; an answer naming Alert therefore
\* has "Alert" in the result.
C21_AlertAlwaysCandidate ==
    (Parsed /\ script = "first_interaction") =>
        /\ has(label_descriptions, sAlert)
        /\ DescriptionOf(label_descriptions, sAlert) =
              IF has(repo_labels, sAlert) THEN DescriptionOf(repo_labels, sAlert)
              ELSE AlertDescription
        /\ (/\ ~SaysNone(suggested_labels)
            /\ \E e \in Range(split(suggested_labels, ",")) :
                   EntryKey(e) = lower(sAlert))
             => sAlert \in Range(relevant_labels)

\* a repository whose only alert label is spelled "alert": "Alert" was added
\* and is what the answer was matched to
C21_Witness ==
    /\ Parsed /\ script = "first_interaction"
    /\ has(repo_labels, lower(sAlert))
    /\ DescriptionOf(label_descriptions, sAlert) = AlertDescription
    /\ sAlert \in Range(relevant_labels)
    /\ lower(sAlert) \notin Range(relevant_labels)

----------------------------------------------------------------------------
(* Claims about update_pr_description, checked under SpecDescription *)

Fetches == Len(fetched)

FetchingOver == pc \in {"d_update", "d_done"}

\* C17: the description is fetched at most max_retries + 1 times and no more
\* once a fetch returned a non-empty body; the loop ends on the first
\* non-empty body, which is the description used, or after max_retries + 1
\* empty ones, and then the update is sent with the empty description.
C17_FetchLoop ==
    /\ Fetches <= max_retries + 1
    /\ \A k \in 1..(Fetches - 1) : fetched[k] = <<>>
    /\ FetchingOver =>
         /\ Fetches >= 1
         /\ fetched[Fetches] # <<>> \/ Fetches = max_retries + 1
         /\ description = fetched[Fetches]
    /\ pc = "d_done" =>
         /\ patch_status # 0
         /\ description = <<>> => updated_description = Newlines \o new_summary

\* max_retries = 2, two empty answers and then the body: three fetches, the
\* body is the description the update was made from
C17_Witness ==
    /\ pc = "d_done"
    /\ max_retries = DefaultMaxRetries
    /\ fetched = <<<<>>, <<>>, <<"t","e","x","t">>>>
    /\ description = <<"t","e","x","t">>
    /\ updated_description = description \o Newlines \o new_summary

\* how often sub occurs in s
Count(sub, s) ==
    Cardinality({k \in 1..(Len(s) - Len(sub) + 1) :
                    SubSeq(s, k, k + Len(sub) - 1) = sub})

IsPrefix(p, s) == Len(p) <= Len(s) /\ SubSeq(s, 1, Len(p)) = p

\* this call worked on the body the call before it sent, with the same summary
SecondApplication ==
    runs > 1 /\ description = last_sent /\ new_summary = last_summary

\* applying the update to the body sent gives that body again, a second call
\* that fetches the body of the first sends the same body, and the text before
\* the first marker of the fetched description is still before the first
\* marker of the body sent
IdempotentAndPreserving ==
    /\ UpdatedDescription(updated_description, new_summary) = updated_description
    /\ SecondApplication => updated_description = last_sent
    /\ IsPrefix(BeforeFirst(description, start),
                BeforeFirst(updated_description, start))
    /\ (runs > 1 /\ description = last_sent) =>
          BeforeFirst(updated_description, start) = BeforeFirst(last_sent, start)

\* C24 as stated: for every summary that starts with the marker the update is
\* idempotent, keeps the text before the first marker, and after any number
\* of calls the body sent contains the marker exactly once.
C24_IdempotentMarkerOnce ==
    pc = "d_done" =>
        /\ IdempotentAndPreserving
        /\ Count(start, updated_description) = 1

\* C24 amended: the body sent contains the marker as often as the summary
\* does, so exactly once when the summary has it only at its start.
C24_IdempotentMarkerAsSummary ==
    pc = "d_done" =>
        /\ IdempotentAndPreserving
        /\ Count(start, updated_description) = Count(start, new_summary)
        /\ IsPrefix(start, new_summary)

\* the second call fetched the body the first call had sent for a pull request
\* with text, and sent that body again
C24_Witness ==
    /\ pc = "d_done"
    /\ SecondApplication
    /\ updated_description = last_sent
    /\ Count(start, updated_description) = 1
    /\ BeforeFirst(updated_description, start) = <<"t","e","x","t">> \o Newlines

----------------------------------------------------------------------------
(* Claims about check_links_in_string, checked under SpecLinks *)

Checked == pc = "l_done"

\* the URLs of the text whose check fails: not on the allow list, and without
\* a network location or not answered by the remote with a status below 400
FailingUrls ==
    {u \in {clean_url(v) : v \in Range(all_urls)} :
        ~u.allowed /\ ~(u.netloc /\ u.alive)}

\* C18: passing is False exactly when a URL of the text fails its check, the
\* URLs reported bad are exactly the ones that failed, and a URL on the allow
\* list is never reported bad.
C18_BadUrlsAreTheFailed ==
    Checked =>
        /\ passing = (FailingUrls = {})
        /\ bad_urls = FailingUrls
        /\ \A u \in bad_urls : ~u.allowed

----------------------------------------------------------------------------
(* Claims about is_url, checked under SpecIsUrl *)

\* is_url came to its loop: the URL is not on the allow list, has a network
\* location, and the check is enabled
ExistenceChecked ==
    ~checked_url.allowed /\ checked_url.netloc /\ check

\* C22: is_url sends at most max_attempts existence requests, sleeps
\* 2^attempt seconds after failed attempt number attempt and not after the
\* last, returns at the first attempt that is answered (True for a URL that
\* is alive, without any wait), and returns False once every attempt failed.
C22_BoundedAttempts ==
    /\ head_requests <= attempts_allowed
    /\ Len(waits) <= attempts_allowed - 1
    /\ \A k \in DOMAIN waits : waits[k] = Pow2(k - 1)
    /\ (pc = "u_done" /\ ExistenceChecked) =>
         /\ checked_url.alive =>
               (url_result = "True" /\ head_requests = 1 /\ waits = <<>>)
         /\ Len(waits) = attempts_allowed - 1 => url_result = "False"

====
